---- MODULE Spec2Model ----
(***************************************************************************)
(* Schema extraction (scripts/project/extract_database_schema.py) and      *)
(* diagram rendering (scripts/project/generate_erd.py).                    *)
(*                                                                         *)
(* A source text is a sequence of lines; a line is its indentation and its *)
(* sequence of tokens.  The regular expressions of the extractors are      *)
(* applied to these lines token by token: what a pattern's group(0) covers *)
(* is the tokens the pattern consumes, and a substring test on a matched   *)
(* text is a membership test on its tokens.  Python's None is the string   *)
(* NoneValue, which no \w+ identifier can equal.                           *)
(***************************************************************************)
EXTENDS Integers, Sequences, FiniteSets, TLC

VARIABLES
    tree,          \* the files below the root directory, in traversal order
    schema_files,  \* what find_schema_files returned to the last extraction
    report,        \* the SchemaReport the last extract_schema returned
    extractExit,   \* how the extract command ended: "0", "1" or "raised"
    extractAgain,  \* whether the last run of the extract command was a re-run
    reportFile,    \* .tmp/project-init/schema-extraction.md
    snapshotFile,  \* .tmp/project-init/schema-extraction.json
    renderExit,    \* how the render-diagram command ended
    renderOut,     \* what the render-diagram command printed
    erdFile,       \* .tmp/project-init/database-erd.mmd
    commitLog,     \* the commits of the repository, newest first
    project,       \* .opencode/project: .last_update, task and epic files, history
    since_ok,      \* whether git takes the --since option in place of a revision
    update         \* the status updates: how many ran, and the exit, commits
                   \* and triggers of the last

vars == <<tree, schema_files, report, extractExit, extractAgain, reportFile,
          snapshotFile, renderExit, renderOut, erdFile, commitLog, project,
          since_ok, update>>

\* ------------------------------------------------------------------ bounds

MaxFiles == 2

MaxBlocks == 2

MaxDecls == 2

\* ----------------------------------------------------------------- helpers

NoneValue == "<None>"

SeqsUpTo(S, n) == UNION {[1..k -> S] : k \in 0..n}

Range(s) == {s[i] : i \in DOMAIN s}

RECURSIVE Flatten(_)
Flatten(ss) == IF ss = <<>> THEN <<>> ELSE Head(ss) \o Flatten(Tail(ss))

\* Python truthiness of an Optional[str]: None and '' are false.
Truthy(v) == v # NoneValue /\ v # ""

\* ------------------------------------------------------------- data model

Field(name, type) ==
    [name |-> name, type |-> type, nullable |-> TRUE, primary_key |-> FALSE,
     foreign_key |-> NoneValue, unique |-> FALSE, default |-> NoneValue]

Entity(name, table_name) ==
    [name |-> name, table_name |-> table_name, fields |-> <<>>,
     indexes |-> <<>>, relationships |-> <<>>]

SchemaReport(entities, relationships, orm_framework) ==
    [entities |-> entities, relationships |-> relationships,
     database_type |-> NoneValue, orm_framework |-> orm_framework]

\* str.lower() on the identifiers the source texts declare.
Lower(s) ==
    CASE s = "Order" -> "order"
      [] s = "User"  -> "user"
      [] s = "Item"  -> "item"
      [] s = "Closes" -> "closes"
      [] s = "RPI" -> "rpi"
      [] s = "Sessions" -> "sessions"
      [] OTHER       -> s

\* ------------------------------------------------------------ source texts

Line(indent, toks) == [indent |-> indent, toks |-> toks]

\* Tokens that are not \w+ words.
NonWord == {"{", "}", "?", "=", "(", ")", ":", "'", ",",
            "@id", "@unique", "@relation", "@@index", "//"}

IsWord(t) == t \notin NonWord

\* ------------------------------------------------ declared blocks (inputs)
\* What a source file declares, block by block.  A block has the declared
\* entity name, the form of its header and closing, its storage-name
\* override and its field declarations; FileText writes it out as text.

DjangoDecls ==
    { [name |-> "id",    ctor |-> "IntegerField", args |-> <<"primary_key=True">>],
      [name |-> "email", ctor |-> "CharField",    args |-> <<"unique=True", ",", "null=False">>],
      [name |-> "user",  ctor |-> "ForeignKey",   args |-> <<"User", ",", "null=False">>],
      [name |-> "slug",  ctor |-> "SlugField",    args |-> <<>>] }

PrismaDecls ==
    { [name |-> "id",    type |-> "Int",    opt |-> FALSE, attrs |-> <<"@id">>],
      [name |-> "email", type |-> "String", opt |-> FALSE, attrs |-> <<"@unique">>],
      [name |-> "user",  type |-> "User",   opt |-> FALSE, attrs |-> <<"@relation">>],
      [name |-> "note",  type |-> "String", opt |-> TRUE,  attrs |-> <<>>] }

\* Header forms.  "ok" is well formed.  Django "nocolon": the class header
\* lacks its colon.  Prisma "nobrace": the header lacks its opening brace;
\* "unclosed": the block lacks its closing brace.
DjangoForms == {"ok", "nocolon"}

PrismaForms == {"ok", "nobrace", "unclosed"}

\* Storage-name override of a Django block: none, db_table on the line of
\* the Meta header, or db_table on the line after it.
MetaForms == {"none", "sameline", "nextline"}

OverrideName == "custom_tbl"

Block(name, form, meta, decls) ==
    [name |-> name, form |-> form, meta |-> meta, decls |-> decls]

WellFormed(b) == b.form = "ok"

DjangoDeclLine(d) ==
    Line(4, <<d.name, "=", "models." \o d.ctor, "(">> \o d.args \o <<")">>)

DjangoMetaLines(meta) ==
    CASE meta = "sameline" ->
           << Line(4, <<"class", "Meta", ":", "db_table", "=", "'", OverrideName, "'">>) >>
      [] meta = "nextline" ->
           << Line(4, <<"class", "Meta", ":">>),
              Line(8, <<"db_table", "=", "'", OverrideName, "'">>) >>
      [] OTHER -> <<>>

DjangoBlockText(b) ==
    << Line(0, <<"class", b.name, "(", "models.Model", ")">>
                 \o (IF b.form = "nocolon" THEN <<>> ELSE <<":">>)) >>
    \o [i \in 1..Len(b.decls) |-> DjangoDeclLine(b.decls[i])]
    \o DjangoMetaLines(b.meta)

PrismaDeclLine(d) ==
    Line(2, <<d.name, d.type>> \o (IF d.opt THEN <<"?">> ELSE <<>>) \o d.attrs)

PrismaBlockText(b) ==
    << Line(0, <<"model", b.name>>
                 \o (IF b.form = "nobrace" THEN <<>> ELSE <<"{">>)) >>
    \o [i \in 1..Len(b.decls) |-> PrismaDeclLine(b.decls[i])]
    \o (IF b.form = "unclosed" THEN <<>> ELSE << Line(0, <<"}">>) >>)

\* ------------------------------------------------------------ project tree
\* A file of the tree: the parts of the resolved root directory, its
\* directories below the root, its name (stem and extension), the blocks its
\* text declares and whether it can be opened.  The tree is the sequence of
\* its files in directory-traversal order.

File(root, dirs, stem, ext, blocks, readable) ==
    [root |-> root, dirs |-> dirs, stem |-> stem, ext |-> ext,
     blocks |-> blocks, readable |-> readable]

FileName(f) == f.stem \o "." \o f.ext

\* Path.parts of the file below the root.
RelParts(f) == f.dirs \o <<FileName(f)>>

\* Path.parts of the absolute path rglob yields (root is resolved).
Parts(f) == f.root \o RelParts(f)

IsDjangoPath(f) == FileName(f) = "models.py"

IsPrismaPath(f) == FileName(f) = "schema.prisma"

FileText(f) ==
    IF IsDjangoPath(f)
    THEN Flatten([i \in 1..Len(f.blocks) |-> DjangoBlockText(f.blocks[i])])
    ELSE Flatten([i \in 1..Len(f.blocks) |-> PrismaBlockText(f.blocks[i])])


\* ---------------------------------------------------------- Source Locator

\* root.rglob(name): the files of that name, in traversal order.
Rglob(t, name) == SelectSeq(t, LAMBDA f : FileName(f) = name)

\* dir.glob('*.' + ext): the files directly inside dir with that extension.
GlobExt(t, dir, ext) == SelectSeq(t, LAMBDA f : f.dirs = dir /\ f.ext = ext)

\* The directories named 'migrations' on the way to file f, outermost first.
MigrationDirsOf(f) ==
    LET ks == SelectSeq([k \in 1..Len(f.dirs) |-> k],
                        LAMBDA k : f.dirs[k] = "migrations")
    IN  [i \in 1..Len(ks) |-> SubSeq(f.dirs, 1, ks[i])]

RECURSIVE Distinct(_)
Distinct(s) ==
    IF s = <<>> THEN <<>>
    ELSE LET r == Distinct(SubSeq(s, 1, Len(s) - 1))
         IN  IF s[Len(s)] \in Range(r) THEN r ELSE Append(r, s[Len(s)])

\* root.rglob('migrations') restricted to directories.
MigrationDirs(t) ==
    Distinct(Flatten([i \in 1..Len(t) |-> MigrationDirsOf(t[i])]))

DirExists(t, dir) ==
    \E i \in 1..Len(t) :
        Len(t[i].dirs) >= Len(dir) /\ SubSeq(t[i].dirs, 1, Len(dir)) = dir

DjangoKeep(f) == "migrations" \notin Range(Parts(f)) /\ "venv" \notin Range(Parts(f))

schema_files_all(t) ==
    LET dirs == MigrationDirs(t)
    IN  [django_models     |-> SelectSeq(Rglob(t, "models.py"), DjangoKeep),
         sqlalchemy_models |-> <<>>,
         prisma_schema     |-> Rglob(t, "schema.prisma"),
         rails_migrations  |-> IF DirExists(t, <<"db", "migrate">>)
                               THEN GlobExt(t, <<"db", "migrate">>, "rb")
                               ELSE <<>>,
         knex_migrations   |-> Flatten([i \in 1..Len(dirs) |->
                                   GlobExt(t, dirs[i], "js") \o GlobExt(t, dirs[i], "ts")]),
         sql_schema        |-> Rglob(t, "schema.sql")]

\* The mapping with every key, the empty lists included.
find_schema_files_Unfiltered(t) == schema_files_all(t)

\* The mapping returned: only the keys whose list is not empty.
find_schema_files(t) ==
    LET all == schema_files_all(t)
    IN  [k \in {k \in DOMAIN all : all[k] # <<>>} |-> all[k]]


\* -------------------------------------------- Dialect Extractor: Django ORM

\* class_pattern, the header part: class\s+(\w+)\(.*models\.Model.*\):\s*\n
ClassHeaderMatch(l) ==
    /\ Len(l.toks) = 6
    /\ l.toks[1] = "class" /\ IsWord(l.toks[2]) /\ l.toks[3] = "("
    /\ l.toks[4] = "models.Model" /\ l.toks[5] = ")" /\ l.toks[6] = ":"

\* class_pattern, the body part ((?:\s{4}.*\n)*): the index after the longest
\* run of lines from i on that are indented by four or more.
RECURSIVE BodyEnd(_, _)
BodyEnd(text, i) ==
    IF i > Len(text) \/ text[i].indent < 4 THEN i ELSE BodyEnd(text, i + 1)

\* class\s+Meta:.*db_table\s*=\s*['"](\w+)['"] : '.' does not cross a line
\* end, so the assignment has to stand on the line of the Meta header.
MetaMatch(l) ==
    /\ Len(l.toks) >= 8
    /\ SubSeq(l.toks, 1, 6) = <<"class", "Meta", ":", "db_table", "=", "'">>
    /\ IsWord(l.toks[7]) /\ l.toks[8] = "'"

DjangoTableName(class_name, class_body) ==
    LET ms == SelectSeq(class_body, MetaMatch)
    IN  IF ms # <<>> THEN ms[1].toks[7] ELSE Lower(class_name) \o "s"

field_patterns ==
    << <<"CharField", "string">>,     <<"TextField", "text">>,
       <<"IntegerField", "integer">>, <<"BooleanField", "boolean">>,
       <<"DateTimeField", "datetime">>, <<"DateField", "date">>,
       <<"ForeignKey", "foreign_key">> >>

\* (\w+)\s*=\s*models\.<ctor> : the match ends with the constructor name.
DjangoFieldMatch(l, ctor) ==
    /\ Len(l.toks) >= 3
    /\ IsWord(l.toks[1]) /\ l.toks[2] = "=" /\ l.toks[3] = "models." \o ctor

\* field_match.group(0): the tokens the pattern consumed.
DjangoGroup0(l) == SubSeq(l.toks, 1, 3)

DjangoField(l, field_type) ==
    LET g0 == Range(DjangoGroup0(l))
    IN  [Field(l.toks[1], field_type) EXCEPT
            !.primary_key = ("primary_key=True" \in g0),
            !.nullable = ~("null=False" \in g0)]

\* The fields of one pattern, in body order.
DjangoFieldsOf(class_body, pat) ==
    LET ls == SelectSeq(class_body, LAMBDA l : DjangoFieldMatch(l, pat[1]))
    IN  [i \in 1..Len(ls) |-> DjangoField(ls[i], pat[2])]

\* Pattern by pattern, each over the whole body.
DjangoFields(class_body) ==
    Flatten([p \in 1..Len(field_patterns) |->
                DjangoFieldsOf(class_body, field_patterns[p])])

DjangoEntity(class_name, class_body) ==
    [Entity(class_name, DjangoTableName(class_name, class_body))
        EXCEPT !.fields = DjangoFields(class_body)]

\* re.finditer(class_pattern, content) from line i on.
RECURSIVE DjangoScan(_, _)
DjangoScan(text, i) ==
    IF i > Len(text) THEN <<>>
    ELSE IF ClassHeaderMatch(text[i])
    THEN LET j == BodyEnd(text, i + 1)
         IN  <<DjangoEntity(text[i].toks[2], SubSeq(text, i + 1, j - 1))>>
             \o DjangoScan(text, j)
    ELSE DjangoScan(text, i + 1)

parse_django_models(text) == DjangoScan(text, 1)

\* ------------------------------------------------ Dialect Extractor: Prisma

\* model_pattern, up to the brace: model\s+(\w+)\s*\{
ModelHeaderMatch(l) ==
    /\ Len(l.toks) >= 3
    /\ l.toks[1] = "model" /\ IsWord(l.toks[2]) /\ l.toks[3] = "{"

\* ([^}]+)\} : the first line at or after i that holds a closing brace, or
\* 0 when there is none (the pattern then does not match).
RECURSIVE CloseIndex(_, _)
CloseIndex(text, i) ==
    IF i > Len(text) THEN 0
    ELSE IF "}" \in Range(text[i].toks) THEN i
    ELSE CloseIndex(text, i + 1)

PrismaSkipped(l) == l.toks = <<>> \/ l.toks[1] \in {"@@index", "//"}

\* re.match((\w+)\s+(\w+)(\??)\s*(.*), line)
PrismaFieldMatch(l) ==
    Len(l.toks) >= 2 /\ IsWord(l.toks[1]) /\ IsWord(l.toks[2])

PrismaField(l) ==
    LET optional   == Len(l.toks) >= 3 /\ l.toks[3] = "?"
        attributes == Range(SubSeq(l.toks, IF optional THEN 4 ELSE 3, Len(l.toks)))
        f == [Field(l.toks[1], l.toks[2]) EXCEPT
                 !.nullable = optional,
                 !.primary_key = ("@id" \in attributes),
                 !.unique = ("@unique" \in attributes)]
    IN  IF "@relation" \in attributes
        THEN [f EXCEPT !.foreign_key = l.toks[2]]
        ELSE f

PrismaFields(model_body) ==
    LET ls == SelectSeq(model_body,
                        LAMBDA l : ~PrismaSkipped(l) /\ PrismaFieldMatch(l))
    IN  [i \in 1..Len(ls) |-> PrismaField(ls[i])]

PrismaEntity(model_name, model_body) ==
    [Entity(model_name, Lower(model_name)) EXCEPT !.fields = PrismaFields(model_body)]

\* re.finditer(model_pattern, content) from line i on.
RECURSIVE PrismaScan(_, _)
PrismaScan(text, i) ==
    IF i > Len(text) THEN <<>>
    ELSE IF ModelHeaderMatch(text[i]) /\ CloseIndex(text, i + 1) # 0
    THEN LET j == CloseIndex(text, i + 1)
         IN  <<PrismaEntity(text[i].toks[2], SubSeq(text, i + 1, j - 1))>>
             \o PrismaScan(text, j + 1)
    ELSE PrismaScan(text, i + 1)

parse_prisma_schema(text) == PrismaScan(text, 1)

\* --------------------------------------------------------- Model Aggregator

\* The same files in the order in which the tree is traversed.
ParsedFiles_DiscoveryOrder(t) ==
    SelectSeq(t, LAMBDA f : (IsDjangoPath(f) /\ DjangoKeep(f)) \/ IsPrismaPath(f))

\* open(file_path, 'r') raises for a file that cannot be opened; neither
\* extractor nor extract_schema catches it.
ParsedFiles(t) ==
    LET sf == find_schema_files(t)
    IN  (IF "django_models" \in DOMAIN sf THEN sf.django_models ELSE <<>>)
        \o (IF "prisma_schema" \in DOMAIN sf THEN sf.prisma_schema ELSE <<>>)

ExtractRaises(t) == \E i \in 1..Len(ParsedFiles(t)) : ~ParsedFiles(t)[i].readable

ParseFile(f) ==
    IF IsDjangoPath(f) THEN parse_django_models(FileText(f))
    ELSE parse_prisma_schema(FileText(f))

EntitiesOf(t) ==
    LET fs == ParsedFiles(t)
    IN  Flatten([i \in 1..Len(fs) |-> ParseFile(fs[i])])

\* The same value with the dialect that was looked for first.
OrmFramework_FirstLocated(t) ==
    LET sf == find_schema_files(t)
    IN  IF "django_models" \in DOMAIN sf THEN "Django ORM"
        ELSE IF "prisma_schema" \in DOMAIN sf THEN "Prisma"
        ELSE NoneValue

OrmFramework(t) ==
    LET sf == find_schema_files(t)
    IN  IF "prisma_schema" \in DOMAIN sf THEN "Prisma"
        ELSE IF "django_models" \in DOMAIN sf THEN "Django ORM"
        ELSE NoneValue

\* The same loop without its test of field.foreign_key.
RelationshipsOfEntity_Untested(entity) ==
    [i \in 1..Len(entity.fields) |->
        [from |-> entity.name, to |-> entity.fields[i].foreign_key,
         type |-> "1:N", field |-> entity.fields[i].name]]

\* The same loop with the two endpoints exchanged.
RelationshipsOfEntity_Swapped(entity) ==
    LET fks == SelectSeq(entity.fields, LAMBDA f : Truthy(f.foreign_key))
    IN  [i \in 1..Len(fks) |->
            [from |-> fks[i].foreign_key, to |-> entity.name,
             type |-> "1:N", field |-> fks[i].name]]

\* The same loop with the Field's type written as the cardinality.
RelationshipsOfEntity_TypeFromField(entity) ==
    LET fks == SelectSeq(entity.fields, LAMBDA f : Truthy(f.foreign_key))
    IN  [i \in 1..Len(fks) |->
            [from |-> entity.name, to |-> fks[i].foreign_key,
             type |-> fks[i].type, field |-> fks[i].name]]

RelationshipsOfEntity(entity) ==
    LET fks == SelectSeq(entity.fields, LAMBDA f : Truthy(f.foreign_key))
    IN  [i \in 1..Len(fks) |->
            [from |-> entity.name, to |-> fks[i].foreign_key,
             type |-> "1:N", field |-> fks[i].name]]

\* The same relationships without those whose target is no entity.
RelationshipsOf_Validated(entities) ==
    SelectSeq(Flatten([i \in 1..Len(entities) |-> RelationshipsOfEntity(entities[i])]),
              LAMBDA r : \E i \in 1..Len(entities) : entities[i].name = r.to)

RelationshipsOf(entities) ==
    Flatten([i \in 1..Len(entities) |-> RelationshipsOfEntity(entities[i])])

\* The same value with the entities of the previous run kept before those
\* of this run.
extract_schema_Accumulating(t) ==
    LET entities == report.entities \o EntitiesOf(t)
    IN  SchemaReport(entities, RelationshipsOf(entities), OrmFramework(t))

\* The same value with each Entity given the relationships of its Fields.
extract_schema_Attaching(t) ==
    LET entities == EntitiesOf(t)
    IN  SchemaReport([i \in 1..Len(entities) |->
                         [entities[i] EXCEPT
                             !.relationships = RelationshipsOfEntity(entities[i])]],
                     RelationshipsOf(entities), OrmFramework(t))

\* The value extract_schema returns when no file raises.
extract_schema(t) ==
    LET entities == EntitiesOf(t)
    IN  SchemaReport(entities, RelationshipsOf(entities), OrmFramework(t))


\* ---------------------------------------------------------- Report Renderer

YesNo(b) == IF b THEN "Yes" ELSE "No"

RECURSIVE Join(_, _)
Join(parts, sep) ==
    IF parts = <<>> THEN ""
    ELSE IF Len(parts) = 1 THEN parts[1]
    ELSE parts[1] \o sep \o Join(Tail(parts), sep)

MarkdownConstraints(f) ==
    (IF f.primary_key THEN <<"PRIMARY KEY">> ELSE <<>>)
    \o (IF f.unique THEN <<"UNIQUE">> ELSE <<>>)
    \o (IF Truthy(f.foreign_key) THEN <<"FK -> " \o f.foreign_key>> ELSE <<>>)

MarkdownFieldRow(f) ==
    "| " \o f.name \o " | " \o f.type \o " | " \o YesNo(f.nullable) \o " | "
    \o (IF MarkdownConstraints(f) = <<>> THEN "-"
        ELSE Join(MarkdownConstraints(f), ", ")) \o " |"

\* A markdown code span; its delimiter, the grave accent, is written ' here.
CodeSpan(text) == "'" \o text \o "'"

MarkdownEntity(e) ==
    << "## " \o e.name, "", "**Table**: " \o CodeSpan(e.table_name), "",
       "### Fields", "",
       "| Name | Type | Nullable | Constraints |",
       "|------|------|----------|-------------|" >>
    \o [i \in 1..Len(e.fields) |-> MarkdownFieldRow(e.fields[i])]
    \o <<"">>

MarkdownRelRow(r) ==
    "| " \o r.from \o " | " \o r.to \o " | " \o r.type \o " | " \o r.field \o " |"

\* The lines generate_markdown_report writes.
generate_markdown_report(rep) ==
    << "# Database Schema Extraction", "",
       "**ORM Framework**: "
           \o (IF Truthy(rep.orm_framework) THEN rep.orm_framework ELSE "Unknown"),
       "**Total Entities**: " \o ToString(Len(rep.entities)), "" >>
    \o Flatten([i \in 1..Len(rep.entities) |-> MarkdownEntity(rep.entities[i])])
    \o (IF rep.relationships # <<>>
        THEN << "## Relationships", "",
                "| From | To | Type | Field |",
                "|------|----|----- |-------|" >>
             \o [i \in 1..Len(rep.relationships) |-> MarkdownRelRow(rep.relationships[i])]
             \o <<"">>
        ELSE <<>>)

\* --------------------------------------------------------- Diagram Renderer
\* A markup line is the sequence of the pieces its f-string joins; the text
\* of the line is their concatenation.

Indent4 == "    "

Indent8 == "        "

LineText(pieces) == Join(pieces, "")

\* The same markers with NOT NULL put before UK.
ErdConstraints_NullFirst(f) ==
    (IF f.primary_key THEN <<"PK">> ELSE <<>>)
    \o (IF Truthy(f.foreign_key) THEN <<"FK">> ELSE <<>>)
    \o (IF ~f.nullable THEN <<"NOT NULL">> ELSE <<>>)
    \o (IF f.unique THEN <<"UK">> ELSE <<>>)

ErdConstraints(f) ==
    (IF f.primary_key THEN <<"PK">> ELSE <<>>)
    \o (IF Truthy(f.foreign_key) THEN <<"FK">> ELSE <<>>)
    \o (IF f.unique THEN <<"UK">> ELSE <<>>)
    \o (IF ~f.nullable THEN <<"NOT NULL">> ELSE <<>>)

ErdFieldLine(f) ==
    LET constraints == ErdConstraints(f)
        constraint_str == IF constraints # <<>>
                          THEN " \"" \o Join(constraints, ", ") \o "\""
                          ELSE ""
    IN  <<Indent8, f.type, " ", f.name, constraint_str>>

\* The same block without the test that the entity has fields.
ErdEntityBlock_Always(e) ==
    << <<Indent4, e.name, " {">> >>
    \o [i \in 1..Len(e.fields) |-> ErdFieldLine(e.fields[i])]
    \o << <<Indent4, "}">> >>

ErdEntityBlock(e) ==
    IF e.fields # <<>>
    THEN << <<Indent4, e.name, " {">> >>
         \o [i \in 1..Len(e.fields) |-> ErdFieldLine(e.fields[i])]
         \o << <<Indent4, "}">> >>
    ELSE <<>>

\* The same mapping with the one-to-one token as the fallback.
MermaidRel_OneToOneFallback(rel_type) ==
    CASE rel_type = "1:1" -> "||--||"
      [] rel_type = "1:N" -> "||--o{"
      [] rel_type = "N:M" -> "}o--o{"
      [] OTHER            -> "||--||"

MermaidRel(rel_type) ==
    CASE rel_type = "1:1" -> "||--||"
      [] rel_type = "1:N" -> "||--o{"
      [] rel_type = "N:M" -> "}o--o{"
      [] OTHER            -> "||--o{"

ErdRelLine(rel) ==
    LET label == IF rel.field # "" /\ rel.field # NoneValue
                 THEN " : \"" \o rel.field \o "\"" ELSE ""
    IN  <<Indent4, rel.from, " ", MermaidRel(rel.type), " ", rel.to, label>>

\* The same output without the relationship lines whose endpoints have no
\* entity block.
generate_mermaid_erd_KnownEndpoints(schema_data) ==
    LET shown == {schema_data.entities[i].name :
                    i \in {i \in 1..Len(schema_data.entities) :
                             schema_data.entities[i].fields # <<>>}}
        rels == SelectSeq(schema_data.relationships,
                          LAMBDA r : r.from \in shown /\ r.to \in shown)
    IN  << <<"erDiagram">> >>
        \o Flatten([i \in 1..Len(schema_data.entities) |->
                       ErdEntityBlock(schema_data.entities[i])])
        \o [i \in 1..Len(rels) |-> ErdRelLine(rels[i])]

\* The same output with the relationship lines put before the entity blocks.
generate_mermaid_erd_RelsFirst(schema_data) ==
    << <<"erDiagram">> >>
    \o [i \in 1..Len(schema_data.relationships) |->
           ErdRelLine(schema_data.relationships[i])]
    \o Flatten([i \in 1..Len(schema_data.entities) |->
                   ErdEntityBlock(schema_data.entities[i])])

\* The lines generate_mermaid_erd joins with '\n'.
generate_mermaid_erd(schema_data) ==
    << <<"erDiagram">> >>
    \o Flatten([i \in 1..Len(schema_data.entities) |->
                   ErdEntityBlock(schema_data.entities[i])])
    \o [i \in 1..Len(schema_data.relationships) |->
           ErdRelLine(schema_data.relationships[i])]


\* ------------------------------------------------------------------ inputs

\* The resolved root directory: a plain one, and one that lies inside a
\* virtual environment.
HomeRoot == <<"/", "home", "proj">>

Roots == {HomeRoot, <<"/", "srv", "venv", "proj">>}

EntityNames == <<"User", "Order", "Item">>

BlockName(i) == EntityNames[((i - 1) % Len(EntityNames)) + 1]

\* One block with up to MaxDecls declarations.
RichDjangoBlocks ==
    { Block(n, fm, m, ds) : n \in {"User", "Order"}, fm \in DjangoForms,
                            m \in MetaForms, ds \in SeqsUpTo(DjangoDecls, MaxDecls) }

RichPrismaBlocks ==
    { Block(n, fm, "none", ds) : n \in {"User", "Order"}, fm \in PrismaForms,
                                 ds \in SeqsUpTo(PrismaDecls, MaxDecls) }

\* Two to MaxBlocks blocks, the i-th named BlockName(i), each with at most
\* one declaration.
BlockSeqs(forms, decls) ==
    UNION { { [i \in 1..k |-> Block(BlockName(i), fs[i], "none", ds[i])] :
                 fs \in [1..k -> forms], ds \in [1..k -> SeqsUpTo(decls, 1)] } :
            k \in 2..MaxBlocks }

DjangoSources ==
    {<<>>} \cup {<<b>> : b \in RichDjangoBlocks} \cup BlockSeqs(DjangoForms, DjangoDecls)

PrismaSources ==
    {<<>>} \cup {<<b>> : b \in RichPrismaBlocks} \cup BlockSeqs(PrismaForms, PrismaDecls)

\* A tree of one schema source file.
SingleFileTrees ==
    { <<File(HomeRoot, <<"app">>, "models", "py", bs, TRUE)>> : bs \in DjangoSources }
    \cup { <<File(HomeRoot, <<"prisma">>, "schema", "prisma", bs, TRUE)>> :
              bs \in PrismaSources }

\* The places of a larger tree, in one traversal order.  A schema source
\* there declares one well-formed block.
TreePlaces ==
    << [dirs |-> <<"app">>, stem |-> "models", ext |-> "py",
        blocks |-> <<Block("User", "ok", "none",
                           <<[name |-> "id", ctor |-> "IntegerField",
                              args |-> <<"primary_key=True">>]>>)>>],
       [dirs |-> <<"app", "migrations">>, stem |-> "models", ext |-> "py",
        blocks |-> <<Block("Item", "ok", "none", <<>>)>>],
       [dirs |-> <<"app", "migrations">>, stem |-> "002_add", ext |-> "js",
        blocks |-> <<>>],
       [dirs |-> <<"db">>, stem |-> "schema", ext |-> "sql", blocks |-> <<>>],
       [dirs |-> <<"db", "migrate">>, stem |-> "001_init", ext |-> "rb",
        blocks |-> <<>>],
       [dirs |-> <<"node_modules", "pkg">>, stem |-> "models", ext |-> "py",
        blocks |-> <<Block("Item", "ok", "none",
                           <<[name |-> "email", ctor |-> "CharField",
                              args |-> <<"unique=True", ",", "null=False">>]>>)>>],
       [dirs |-> <<"node_modules", "pkg", "migrations">>, stem |-> "003_x",
        ext |-> "ts", blocks |-> <<>>],
       [dirs |-> <<"prisma">>, stem |-> "schema", ext |-> "prisma",
        blocks |-> <<Block("Order", "ok", "none",
                           <<[name |-> "user", type |-> "User", opt |-> FALSE,
                              attrs |-> <<"@relation">>]>>)>>],
       [dirs |-> <<"vendor", "pkg">>, stem |-> "schema", ext |-> "prisma",
        blocks |-> <<Block("Item", "ok", "none",
                           <<[name |-> "id", type |-> "Int", opt |-> FALSE,
                              attrs |-> <<"@id">>]>>)>>],
       [dirs |-> <<"venv", "lib">>, stem |-> "models", ext |-> "py",
        blocks |-> <<Block("Item", "ok", "none", <<>>)>>],
       [dirs |-> <<".venv", "lib">>, stem |-> "models", ext |-> "py",
        blocks |-> <<Block("Item", "ok", "none", <<>>)>>] >>

IsSource(p) == p.ext \in {"py", "prisma"}

Reverse(s) == [i \in 1..Len(s) |-> s[Len(s) + 1 - i]]

TreeOf(root, ks, r) ==
    [i \in 1..Len(ks) |->
        File(root, TreePlaces[ks[i]].dirs, TreePlaces[ks[i]].stem, TreePlaces[ks[i]].ext,
             TreePlaces[ks[i]].blocks, r[ks[i]])]

\* Up to MaxFiles places, in the traversal order or in its reverse; a
\* schema source among them may be unreadable.
MultiFileTrees ==
    UNION { UNION { { TreeOf(root, ks, r), Reverse(TreeOf(root, ks, r)) } :
                    root \in Roots,
                    r \in { r \in [Range(ks) -> BOOLEAN] :
                              \A k \in Range(ks) : ~IsSource(TreePlaces[k]) => r[k] } } :
            ks \in { ks \in SeqsUpTo(DOMAIN TreePlaces, MaxFiles) :
                       \A i \in 1..Len(ks) - 1 : ks[i] < ks[i + 1] } }

Trees == MultiFileTrees \cup SingleFileTrees


\* ---------------------------------------------------------------- snapshots

SnapshotPath == ".tmp/project-init/schema-extraction.json"

NoData == SchemaReport(<<>>, <<>>, NoneValue)

SnapshotEntities ==
    { [Entity("User", "users") EXCEPT !.fields =
          << [Field("id", "integer") EXCEPT !.primary_key = TRUE],
             [Field("email", "string") EXCEPT !.unique = TRUE, !.nullable = FALSE] >>],
      [Entity("Order", "orders") EXCEPT !.fields =
          << [Field("user", "User") EXCEPT !.foreign_key = "User"],
             [Field("code", "string") EXCEPT !.primary_key = TRUE,
                 !.foreign_key = "User", !.unique = TRUE, !.nullable = FALSE],
             Field("note", "text") >>],
      Entity("Audit", "audits") }

SnapshotRels ==
    { [from |-> "Order", to |-> to, type |-> ty, field |-> fl] :
        to \in {"User", "Audit", "Ghost"}, ty \in {"1:1", "1:N", "N:M", "many"},
        fl \in {"user", ""} }

MaxSnapEntities == 2

MaxSnapRels == 1

\* Snapshots saved by earlier runs or written by hand.
SavedSnapshots ==
    { SchemaReport(es, rs, "Prisma") :
        es \in SeqsUpTo(SnapshotEntities, MaxSnapEntities),
        rs \in SeqsUpTo(SnapshotRels, MaxSnapRels) }

SnapshotFiles ==
    { [state |-> st, data |-> NoData] : st \in {"missing", "unreadable", "corrupt"} }
    \cup { [state |-> "valid", data |-> d] : d \in SavedSnapshots }

NoFile == [exists |-> FALSE, content |-> <<>>]

\* ----------------- Status Updater (scripts/project/update_project_status.py)
\* A commit message is the sequence of its tokens, the blanks between words
\* included; a pattern is the sequence of its elements, each matched
\* against tokens: a literal, \s* , \s+ , [- ] , (\d+) or (.+) .

Blank == " "

DigitTokens == {"001", "002", "7"}

Lit(text) == <<"lit", text>>

COMPLETION_PATTERNS ==
    << <<Lit("feat:"), <<"ws*">>, Lit("complete"), <<"ws+">>, <<"any+">> >>,
       <<Lit("feat:"), <<"ws*">>, Lit("finish"), <<"ws+">>, <<"any+">> >>,
       <<Lit("complete"), <<"ws+">>, Lit("task"), <<"sep">>, <<"digits">> >>,
       <<Lit("finish"), <<"ws+">>, Lit("task"), <<"sep">>, <<"digits">> >>,
       <<Lit("epic"), <<"ws+">>, Lit("complete")>>,
       <<Lit("phase"), <<"ws+">>, Lit("complete")>>,
       <<Lit("milestone")>> >>

TASK_REFERENCE_PATTERNS ==
    << <<Lit("closes"), <<"ws+">>, Lit("#"), Lit("task"), <<"sep">>, <<"digits">> >>,
       <<Lit("closes"), <<"ws+">>, Lit("task"), <<"sep">>, <<"digits">> >>,
       <<Lit("task"), <<"sep">>, <<"digits">> >> >>

\* The positions after the tokens a pattern can consume from position i.
RECURSIVE Ends(_, _, _)
Ends(pat, toks, i) ==
    IF pat = <<>> THEN {i}
    ELSE LET el   == Head(pat)
             rest == Tail(pat)
             more == i <= Len(toks)
         IN  CASE el[1] = "lit" ->
                    IF more /\ toks[i] = el[2] THEN Ends(rest, toks, i + 1) ELSE {}
               [] el[1] = "sep" ->
                    IF more /\ toks[i] \in {"-", Blank} THEN Ends(rest, toks, i + 1) ELSE {}
               [] el[1] = "digits" ->
                    IF more /\ toks[i] \in DigitTokens THEN Ends(rest, toks, i + 1) ELSE {}
               [] el[1] = "ws*" ->
                    Ends(rest, toks, i)
                    \cup (IF more /\ toks[i] = Blank THEN Ends(pat, toks, i + 1) ELSE {})
               [] el[1] = "ws+" ->
                    IF more /\ toks[i] = Blank
                    THEN Ends(<< <<"ws*">> >> \o rest, toks, i + 1) ELSE {}
               [] el[1] = "any+" ->
                    IF more
                    THEN Ends(rest, toks, i + 1) \cup Ends(pat, toks, i + 1) ELSE {}

\* re.search(pattern, text)
Search(pat, toks) == \E i \in 1..(Len(toks) + 1) : Ends(pat, toks, i) # {}

\* re.findall(pattern, text) of a pattern that ends with its one group: the
\* captured tokens, in the order of their position.
FindAll(pat, toks) ==
    LET at == {j \in 1..Len(toks) : \E i \in 1..j : (j + 1) \in Ends(pat, toks, i)}
    IN  [k \in 1..Len(SelectSeq([j \in 1..Len(toks) |-> j], LAMBDA j : j \in at)) |->
            toks[SelectSeq([j \in 1..Len(toks) |-> j], LAMBDA j : j \in at)[k]]]

LowerAll(toks) == [i \in 1..Len(toks) |-> Lower(toks[i])]

CommitInfo(hash, message) == [hash |-> hash, message |-> message]

should_trigger_update(commit) ==
    \E p \in 1..Len(COMPLETION_PATTERNS) :
        Search(COMPLETION_PATTERNS[p], LowerAll(commit.message))

\* list(set(task_ids)): the distinct ids; the order in which the set is
\* iterated does not change what main leaves in the files.
extract_task_references(commit) ==
    Distinct(Flatten([p \in 1..Len(TASK_REFERENCE_PATTERNS) |->
                FindAll(TASK_REFERENCE_PATTERNS[p], LowerAll(commit.message))]))

\* str.zfill(3)
Zfill3(id) == IF id = "7" THEN "007" ELSE id

\* The text of the sessions heading, as tokens.
HeadingText == <<"##", Blank, "RPI", Blank, "Sessions">>

\* '## RPI Sessions' in text
HoldsHeadingText(toks) ==
    \E i \in 1..Len(toks) :
        i + 4 <= Len(toks) /\ SubSeq(toks, i, i + 4) = HeadingText

\* The pieces of a task file that matter to update_task_status, in file
\* order: a heading line '## RPI Sessions', or a session entry with the
\* hash of its commit; heading says whether the piece holds the text
\* '## RPI Sessions' (an entry does when its Notes line, the first line of
\* the commit message, holds it).
Heading == [entry |-> FALSE, hash |-> "", heading |-> TRUE]

SessionEntry(commit) ==
    [entry |-> TRUE, hash |-> commit.hash,
     heading |-> HoldsHeadingText(commit.message)]

\* A task file planning/epics/<epic>/tasks/task-<num>-*.md: its Status
\* field, its pieces (at first just its heading lines) and whether its
\* Last Updated field holds the day of the run.
TaskFile(epic, num, status, headings) ==
    [epic |-> epic, num |-> num, status |-> status,
     body |-> [i \in 1..headings |-> Heading], last_updated |-> "old"]

\* The commits of the session entries of a task file, in file order.
Sessions(task) ==
    LET es == SelectSeq(task.body, LAMBDA c : c.entry)
    IN  [i \in 1..Len(es) |-> es[i].hash]

\* An epic's STATUS.md with its completion fields.
EpicStatus(percent, completed, total) ==
    [percent |-> percent, completed |-> completed, total |-> total,
     last_updated |-> "old"]

\* Times are counted in commits: time k lies after the k oldest commits of
\* the log, and a run takes place after all of them.  The log is kept
\* newest first, as iter_commits yields it.
Now(log) == Len(log)

\* What get_last_update_time returns: no timestamp, or the time read.
NoTime == <<>>

TimeAt(k) == <<k>>

get_commits_since(log, since) ==
    IF since # NoTime
    THEN SubSeq(log, 1, Len(log) - since[1])
    ELSE SubSeq(log, 1, IF Len(log) < 10 THEN Len(log) ELSE 10)

\* The index of the first file rglob('task-<id>-*.md') yields, 0 for None.
find_task_file(tasks, task_id) ==
    LET ks == SelectSeq([k \in 1..Len(tasks) |-> k],
                        LAMBDA k : tasks[k].num = Zfill3(task_id))
    IN  IF ks = <<>> THEN 0 ELSE ks[1]

\* The file update_task_status writes for an existing task file:
\* str.replace puts the entry after every place that holds the heading
\* text; without such a place the heading and the entry are appended.
update_task_status(task, commit) ==
    [task EXCEPT
        !.status = IF @ \in {"pending", "in_progress"} THEN "completed" ELSE @,
        !.body = IF \E i \in 1..Len(@) : @[i].heading
                 THEN Flatten([i \in 1..Len(@) |->
                         IF @[i].heading THEN <<@[i], SessionEntry(commit)>>
                                         ELSE <<@[i]>>])
                 ELSE @ \o <<Heading, SessionEntry(commit)>>,
        !.last_updated = "today"]

\* re.search(r'\*\*Status\*\*:\s*completed', content): the Status field or
\* the Status line of a session entry.
StatusCompletedIn(task) == task.status = "completed" \/ Sessions(task) # <<>>

calculate_epic_progress(tasks, epic) ==
    LET mine == SelectSeq(tasks, LAMBDA t : t.epic = epic)
    IN  <<Len(SelectSeq(mine, StatusCompletedIn)), Len(mine)>>

\* The replacement templates of update_epic_status put the digits of the
\* counts right after '\1': with fewer than ten completed tasks re.sub
\* reads a reference to a group the pattern does not have and raises
\* re.error before STATUS.md is written.
EpicTemplateRaises(completed) == completed < 10

\* The epic files after update_epic_status, and whether it raised.
update_epic_status(epics, tasks, epic) ==
    IF epic \notin DOMAIN epics THEN [raised |-> FALSE, epics |-> epics]
    ELSE LET completed == calculate_epic_progress(tasks, epic)[1]
             total     == calculate_epic_progress(tasks, epic)[2]
         IN  IF EpicTemplateRaises(completed)
             THEN [raised |-> TRUE, epics |-> epics]
             ELSE [raised |-> FALSE,
                   epics |-> [epics EXCEPT ![epic] =
                      [percent |-> IF total > 0 THEN (completed * 100) \div total ELSE 0,
                       completed |-> completed, total |-> total,
                       last_updated |-> "today"]]]

\* The same loop with updates_made also set for a task id without a file.
RECURSIVE UpdateTasks_Unfound(_, _, _)
UpdateTasks_Unfound(task_ids, commit, st) ==
    IF task_ids = <<>> \/ st.raised THEN st
    ELSE LET k == find_task_file(st.tasks, Head(task_ids))
         IN  IF k = 0
             THEN UpdateTasks_Unfound(Tail(task_ids), commit,
                                      [st EXCEPT !.updates_made = TRUE])
             ELSE LET tasks == [st.tasks EXCEPT ![k] = update_task_status(@, commit)]
                      epic  == update_epic_status(st.epics, tasks, tasks[k].epic)
                  IN  UpdateTasks_Unfound(Tail(task_ids), commit,
                          [st EXCEPT !.tasks = tasks, !.epics = epic.epics,
                                     !.updates_made = ~epic.raised,
                                     !.raised = epic.raised])

\* The loop of main over the task ids of one commit; st: the task files,
\* the epic files, updates_made and whether an exception ended the loop.
RECURSIVE UpdateTasks(_, _, _)
UpdateTasks(task_ids, commit, st) ==
    IF task_ids = <<>> \/ st.raised THEN st
    ELSE LET k == find_task_file(st.tasks, Head(task_ids))
         IN  IF k = 0 THEN UpdateTasks(Tail(task_ids), commit, st)
             ELSE LET tasks == [st.tasks EXCEPT ![k] = update_task_status(@, commit)]
                      epic  == update_epic_status(st.epics, tasks, tasks[k].epic)
                  IN  UpdateTasks(Tail(task_ids), commit,
                          [st EXCEPT !.tasks = tasks, !.epics = epic.epics,
                                     !.updates_made = ~epic.raised,
                                     !.raised = epic.raised])

\* The loop of main over the commits; triggers: the commits for which it
\* printed 'Trigger found'.
RECURSIVE AnalyzeCommits(_, _)
AnalyzeCommits(commits, st) ==
    IF commits = <<>> \/ st.raised THEN st
    ELSE AnalyzeCommits(Tail(commits),
            IF should_trigger_update(Head(commits))
            THEN UpdateTasks(extract_task_references(Head(commits)), Head(commits),
                             [st EXCEPT !.triggers = @ \cup {Head(commits).hash}])
            ELSE st)

\* ------------------------------------------------------------------ actions

\* A printed line: its stream, its fixed text and the value formatted into
\* it (NoneValue when there is none).  A traceback goes to stderr.
Out(stream, msg, arg) == [stream |-> stream, msg |-> msg, arg |-> arg]

NoSchemaFiles == [k \in {} |-> <<>>]

\* Commit messages: with a completion phrase, with a closing reference,
\* with both, with neither, with the text of the sessions heading.
Messages ==
    { <<"feat:", Blank, "complete", Blank, "login">>,
      <<"feat:", Blank, "complete", Blank, "task", "-", "001">>,
      <<"fix:", Blank, "closes", Blank, "#", "task", "-", "001">>,
      <<"fix:", Blank, "Closes", Blank, "task", "-", "002">>,
      <<"closes", Blank, "#", "task", "-", "001", Blank, "milestone">>,
      <<"chore:", Blank, "tidy">>,
      <<"finish", Blank, "task", Blank, "7">>,
      <<"feat:", Blank, "complete", Blank, "task", "-", "001", Blank,
        "##", Blank, "RPI", Blank, "Sessions">> }

MaxCommits == 2

\* Runs of the status update in one behaviour.
MaxUpdateRuns == 2

Hashes == <<"c1", "c2", "c3", "c4">>

CommitLogs ==
    UNION { { [i \in 1..n |-> CommitInfo(Hashes[n + 1 - i], ms[i])] :
                ms \in [1..n -> Messages] } : n \in 1..MaxCommits }

NoProject ==
    [exists |-> FALSE, last_update |-> NoTime, tasks |-> <<>>,
     epics |-> [e \in {} |-> EpicStatus(0, 0, 0)], history |-> <<>>]

\* The task files and epic files of the project directory.
Plannings ==
    { [tasks |-> <<>>, epics |-> [e \in {} |-> EpicStatus(0, 0, 0)]],
      [tasks |-> <<TaskFile("auth", "001", "pending", 1)>>,
       epics |-> [e \in {"auth"} |-> EpicStatus(0, 0, 1)]],
      [tasks |-> <<TaskFile("auth", "001", "in_progress", 0),
                   TaskFile("auth", "002", "completed", 1)>>,
       epics |-> [e \in {} |-> EpicStatus(0, 0, 0)]],
      [tasks |-> <<TaskFile("auth", "001", "pending", 1),
                   TaskFile("billing", "007", "blocked", 1)>>,
       epics |-> [e \in {"auth"} |-> EpicStatus(0, 0, 1)]] }

Projects ==
    { [exists |-> TRUE, last_update |-> lu, tasks |-> pl.tasks, epics |-> pl.epics,
       history |-> <<>>] : lu \in {NoTime, TimeAt(0)}, pl \in Plannings }

NoUpdate == [runs |-> 0, exit |-> "not_run", commits |-> <<>>, triggers |-> {}]

\* The task files update_task_status is called on directly.
InitialTaskFiles ==
    { TaskFile("auth", "001", st, h) :
        st \in {"pending", "in_progress", "completed", "blocked"}, h \in 0..2 }

\* Session entries in a task file beyond which no further call is made.
MaxSessions == 3

\* No command has run yet.
NothingRun ==
    /\ schema_files = NoSchemaFiles
    /\ report = NoData
    /\ extractExit = "not_run"
    /\ extractAgain = FALSE
    /\ reportFile = NoFile
    /\ renderExit = "not_run"
    /\ renderOut = <<>>
    /\ erdFile = NoFile
    /\ update = NoUpdate

\* The schema commands: a project tree, or a saved snapshot.
Init ==
    /\ \/ tree \in Trees /\ snapshotFile = [state |-> "missing", data |-> NoData]
       \/ tree = <<>> /\ snapshotFile \in SnapshotFiles
    /\ commitLog = <<CommitInfo("c1", <<"chore:", Blank, "tidy">>)>>
    /\ project = NoProject
    /\ since_ok = FALSE
    /\ NothingRun

\* The status update: a repository and a project directory.
StatusInit ==
    /\ tree = <<>>
    /\ snapshotFile = [state |-> "missing", data |-> NoData]
    /\ commitLog \in CommitLogs
    /\ project \in Projects \cup {NoProject}
    /\ since_ok \in BOOLEAN
    /\ NothingRun

\* main() of extract_database_schema.py over the tree.
ExtractMain ==
    /\ schema_files' = find_schema_files(tree)
    /\ extractAgain' = (extractExit # "not_run")
    /\ IF ExtractRaises(tree)
       THEN /\ extractExit' = "raised"
            /\ UNCHANGED <<report, reportFile, snapshotFile>>
       ELSE /\ report' = extract_schema(tree)
            /\ IF report'.entities = <<>>
               THEN /\ extractExit' = "1"
                    /\ UNCHANGED <<reportFile, snapshotFile>>
               ELSE /\ reportFile' = [exists |-> TRUE,
                                      content |-> generate_markdown_report(report')]
                    /\ snapshotFile' = [state |-> "valid", data |-> report']
                    /\ extractExit' = "0"
    /\ UNCHANGED <<tree, renderExit, renderOut, erdFile, commitLog, project,
                   since_ok, update>>

\* main() of generate_erd.py; given: whether the snapshot file was named
\* on the command line.
RenderMain ==
    \E given \in BOOLEAN :
        /\ IF ~given
           THEN /\ renderOut' = << Out("stdout", "Usage: python generate_erd.py <schema-json-file> [output-file]", NoneValue),
                                   Out("stdout", "Example: python generate_erd.py .tmp/project-init/schema-extraction.json", NoneValue) >>
                /\ renderExit' = "1"
                /\ UNCHANGED erdFile
           ELSE IF snapshotFile.state = "missing"
           THEN /\ renderOut' = << Out("stdout", "ERROR: File not found: ", SnapshotPath) >>
                /\ renderExit' = "1"
                /\ UNCHANGED erdFile
           ELSE IF snapshotFile.state = "unreadable"
           THEN /\ renderOut' = << Out("stdout", "Loading schema from: ", SnapshotPath),
                                   Out("stderr", "PermissionError: [Errno 13] Permission denied: ", SnapshotPath) >>
                /\ renderExit' = "raised"
                /\ UNCHANGED erdFile
           ELSE IF snapshotFile.state = "corrupt"
           THEN /\ renderOut' = << Out("stdout", "Loading schema from: ", SnapshotPath),
                                   Out("stderr", "json.decoder.JSONDecodeError: Expecting value: line 1 column 1 (char 0)", NoneValue) >>
                /\ renderExit' = "raised"
                /\ UNCHANGED erdFile
           ELSE /\ erdFile' = [exists |-> TRUE,
                               content |-> generate_mermaid_erd(snapshotFile.data)]
                /\ renderOut' = << Out("stdout", "Loading schema from: ", SnapshotPath),
                                   Out("stdout", "Generating Mermaid ERD...", NoneValue),
                                   Out("stdout", "ERD saved to ", ".tmp/project-init/database-erd.mmd"),
                                   Out("stdout", "ERD Preview:", NoneValue) >>
                /\ renderExit' = "0"
        /\ UNCHANGED <<tree, schema_files, report, extractExit, extractAgain,
                       reportFile, snapshotFile, commitLog, project, since_ok,
                       update>>

\* main() of update_project_status.py; get_commits_since passes the option
\* string '--since="<timestamp>"' in place of a revision, and raises when
\* git does not take it (~since_ok).
UpdateMain ==
    /\ update.runs < MaxUpdateRuns
    /\ IF ~project.exists
       THEN /\ update' = [runs |-> update.runs + 1, exit |-> "1",
                          commits |-> <<>>, triggers |-> {}]
            /\ UNCHANGED project
       ELSE IF project.last_update # NoTime /\ ~since_ok
            THEN /\ update' = [runs |-> update.runs + 1, exit |-> "raised",
                               commits |-> <<>>, triggers |-> {}]
                 /\ UNCHANGED project
            ELSE LET commits == get_commits_since(commitLog, project.last_update)
                     st == AnalyzeCommits(commits,
                              [tasks |-> project.tasks, epics |-> project.epics,
                               updates_made |-> FALSE, raised |-> FALSE,
                               triggers |-> {}])
                 IN  /\ update' = [runs |-> update.runs + 1,
                                   exit |-> IF st.raised THEN "raised" ELSE "0",
                                   commits |-> commits,
                                   triggers |-> st.triggers]
                     /\ IF st.raised
                        THEN project' = [project EXCEPT !.tasks = st.tasks]
                        ELSE IF st.updates_made
                        THEN project' = [exists |-> TRUE,
                                         last_update |-> TimeAt(Now(commitLog)),
                                         tasks |-> st.tasks, epics |-> st.epics,
                                         history |-> Append(project.history, Now(commitLog))]
                        ELSE UNCHANGED project
    /\ UNCHANGED <<tree, schema_files, report, extractExit, extractAgain, reportFile,
                   snapshotFile, renderExit, renderOut, erdFile, commitLog, since_ok>>

\* Calls of update_task_status: one task file and a repository.
TaskInit ==
    /\ tree = <<>>
    /\ snapshotFile = [state |-> "missing", data |-> NoData]
    /\ commitLog \in CommitLogs
    /\ \E f \in InitialTaskFiles :
          project = [exists |-> TRUE, last_update |-> NoTime, tasks |-> <<f>>,
                     epics |-> [e \in {} |-> EpicStatus(0, 0, 0)], history |-> <<>>]
    /\ since_ok = FALSE
    /\ NothingRun

\* update_task_status(task_file, commit) on an existing task file.
UpdateTaskStatus ==
    /\ \E k \in 1..Len(project.tasks), i \in 1..Len(commitLog) :
          /\ Len(Sessions(project.tasks[k])) < MaxSessions
          /\ project' = [project EXCEPT
                            !.tasks[k] = update_task_status(@, commitLog[i])]
    /\ UNCHANGED <<tree, schema_files, report, extractExit, extractAgain, reportFile,
                   snapshotFile, renderExit, renderOut, erdFile, commitLog, since_ok,
                   update>>

Next == ExtractMain \/ RenderMain

TaskNext == UpdateTaskStatus

StatusNext == UpdateMain

Spec == Init /\ [][Next]_vars

StatusSpec == StatusInit /\ [][StatusNext]_vars

TaskSpec == TaskInit /\ [][TaskNext]_vars


\* ------------------------------------------------------------------ claims

Returned == extractExit \in {"0", "1"}

AllFields(entities) == Flatten([i \in 1..Len(entities) |-> entities[i].fields])

FkFields(entities) == SelectSeq(AllFields(entities), LAMBDA f : f.foreign_key # NoneValue)

\* C1: in every model extract_schema returns, there are exactly as many
\* Relationships as there are Fields, over all Entities, whose foreign_key
\* is not None.
C1_RelationshipCount ==
    Returned
    => /\ Len(report.relationships) = Len(FkFields(report.entities))
       /\ \A i \in 1..Len(report.relationships) :
             \E j \in 1..Len(report.entities) :
                \E k \in 1..Len(report.entities[j].fields) :
                   /\ report.entities[j].fields[k].foreign_key # NoneValue
                   /\ report.entities[j].fields[k].foreign_key = report.relationships[i].to
                   /\ report.entities[j].fields[k].name = report.relationships[i].field
                   /\ report.entities[j].name = report.relationships[i].from

\* A returned model with two Relationships and a Field without foreign key.
C1_Witness ==
    /\ Returned
    /\ Len(report.relationships) = 2
    /\ Len(AllFields(report.entities)) > 2


\* The one located, readable source file of a tree that holds just one.
OneSource == Len(ParsedFiles(tree)) = 1 /\ ParsedFiles(tree)[1].readable

Source == ParsedFiles(tree)[1]

\* A declaration the source marks as a foreign key to the target entity.
DeclaresForeignKey(f, d, target) ==
    IF IsDjangoPath(f)
    THEN d.ctor = "ForeignKey" /\ d.args # <<>> /\ d.args[1] = target
    ELSE d.type = target /\ "@relation" \in Range(d.attrs)

\* C2: a source file of any supported dialect that declares an entity Order
\* with a field user marked as a foreign key to User yields exactly one
\* Relationship: from Order, to User, one-to-many ('1:N'), via user.
C2_OrderUserRelationship ==
    ( /\ extractExit # "not_run"
      /\ OneSource
      /\ Len(Source.blocks) = 1
      /\ Source.blocks[1].name = "Order"
      /\ WellFormed(Source.blocks[1])
      /\ Len(Source.blocks[1].decls) = 1
      /\ Source.blocks[1].decls[1].name = "user"
      /\ DeclaresForeignKey(Source, Source.blocks[1].decls[1], "User") )
    => /\ Returned
       /\ report.relationships =
            << [from |-> "Order", to |-> "User", type |-> "1:N", field |-> "user"] >>

\* The text of a diagram field line without its indentation.
FieldLineText(pieces) == Join(Tail(pieces), "")

ErdFieldLines(markup) == SelectSeq(markup, LAMBDA l : l[1] = Indent8)

ErdBlockOpens(markup) ==
    SelectSeq(markup, LAMBDA l : Len(l) = 3 /\ l[1] = Indent4 /\ l[3] = " {")

\* C3: one model-class file declaring User with id (integer, primary key)
\* and email (string, unique, not nullable) gives one Entity, two Fields and
\* no Relationship, and renders a User block whose field lines are
\* integer id "PK" and string email "UK, NOT NULL".
C3_UserScenario ==
    ( /\ extractExit # "not_run"
      /\ renderExit = "0"
      /\ OneSource
      /\ IsDjangoPath(Source)
      /\ Len(Source.blocks) = 1
      /\ Source.blocks[1].name = "User"
      /\ WellFormed(Source.blocks[1])
      /\ Source.blocks[1].meta = "none"
      /\ [i \in 1..Len(Source.blocks[1].decls) |-> Source.blocks[1].decls[i].name]
            = <<"id", "email">> )
    => /\ Returned
       /\ Len(report.entities) = 1
       /\ Len(AllFields(report.entities)) = 2
       /\ report.relationships = <<>>
       /\ ErdBlockOpens(erdFile.content) = << <<Indent4, "User", " {">> >>
       /\ { FieldLineText(l) : l \in Range(ErdFieldLines(erdFile.content)) }
            = { "integer id \"PK\"", "string email \"UK, NOT NULL\"" }


\* The storage name the default rule gives a declared name.
DefaultStorageName(name) ==
    CASE name = "Order" -> "orders"
      [] name = "User"  -> "users"
      [] name = "Item"  -> "items"

AllWellFormed(f) == \A i \in 1..Len(f.blocks) : WellFormed(f.blocks[i])

\* C4: for every dialect extractor, an entity declared without a
\* storage-name override gets the lower-cased declared name with 's'
\* appended as its table_name (Order gives orders).
C4_DefaultNaming ==
    (Returned /\ OneSource /\ AllWellFormed(Source))
    => /\ Len(report.entities) = Len(Source.blocks)
       /\ \A i \in 1..Len(Source.blocks) :
             Source.blocks[i].meta = "none"
             => report.entities[i].table_name
                  = DefaultStorageName(Source.blocks[i].name)

VendoredSegments == {"node_modules", "venv", ".venv", "vendor"}

\* C5: no path in any list find_schema_files returns holds, below the
\* root, a vendored/dependency directory segment.
C5_ExclusionInvariant ==
    \A k \in DOMAIN schema_files :
        \A i \in 1..Len(schema_files[k]) :
            Range(RelParts(schema_files[k][i])) \cap VendoredSegments = {}

\* The entities of the located files that can be opened, in file order.
ReadableEntities ==
    LET fs == SelectSeq(ParsedFiles(tree), LAMBDA f : f.readable)
    IN  Flatten([i \in 1..Len(fs) |-> ParseFile(fs[i])])

SomeUnreadable == \E i \in 1..Len(ParsedFiles(tree)) : ~ParsedFiles(tree)[i].readable

\* C6: when a schema source file of the run cannot be opened,
\* extract_schema does not abort: it returns a model that holds the
\* entities of every other file and none of the unreadable one.
C6_UnreadableFileSkipped ==
    (extractExit # "not_run" /\ SomeUnreadable)
    => /\ Returned
       /\ report.entities = ReadableEntities

\* The field names a well-formed block's declarations give its Entity.
RecognizedCtors == {field_patterns[p][1] : p \in 1..Len(field_patterns)}

DeclaredFieldNames(f, b) ==
    IF IsDjangoPath(f)
    THEN {b.decls[i].name : i \in {i \in 1..Len(b.decls) : b.decls[i].ctor \in RecognizedCtors}}
    ELSE {b.decls[i].name : i \in 1..Len(b.decls)}

FieldNames(e) == {e.fields[i].name : i \in 1..Len(e.fields)}

Yields(f, b) ==
    \E i \in 1..Len(report.entities) :
        /\ report.entities[i].name = b.name
        /\ FieldNames(report.entities[i]) = DeclaredFieldNames(f, b)

SomeMalformed(f) == \E i \in 1..Len(f.blocks) : ~WellFormed(f.blocks[i])

\* C7: in a file with a malformed block, every well-formed block, before
\* or after the malformed one, still yields its Entity with its Fields.
C7_MalformedBlockIsolated ==
    (Returned /\ OneSource /\ SomeMalformed(Source))
    => \A i \in 1..Len(Source.blocks) :
          WellFormed(Source.blocks[i]) => Yields(Source, Source.blocks[i])

\* C8: the extract command returns a non-zero exit code, without an
\* unhandled exception, when no entity was found, and returns 0 when at
\* least one entity was extracted.
C8_ExtractExitCode ==
    extractExit # "not_run"
    => /\ ReadableEntities = <<>> => extractExit = "1"
       /\ ReadableEntities # <<>> => extractExit = "0"


\* The last render-diagram run was given the snapshot file's name.
FileNamed == renderExit # "not_run" /\ renderOut[1].msg # "Usage: python generate_erd.py <schema-json-file> [output-file]"

\* The exit status of the process: an unhandled exception ends it with 1.
NonZeroExit(exit) == exit \in {"1", "raised"}

\* A printed line that reports a failure: the ERROR line or a traceback.
IsErrorReport(o) == o.stream = "stderr" \/ o.msg = "ERROR: File not found: "

\* C9: when the snapshot file is missing, unreadable or corrupt, the
\* render-diagram command ends with a non-zero exit code and a report that
\* names the snapshot file, and writes no diagram file.
C9_BadSnapshotReported ==
    (FileNamed /\ snapshotFile.state \in {"missing", "unreadable", "corrupt"})
    => /\ NonZeroExit(renderExit)
       /\ \E i \in 1..Len(renderOut) :
             IsErrorReport(renderOut[i]) /\ renderOut[i].arg = SnapshotPath
       /\ ~erdFile.exists

WithFields(entities) == SelectSeq(entities, LAMBDA e : e.fields # <<>>)

Rendered == renderExit = "0" /\ erdFile.exists

\* C10 as stated: the entity blocks and the field lines counted in the
\* markup are as many as the entities and the fields of the snapshot.
C10_CountsRoundTrip ==
    Rendered
    => /\ Len(ErdBlockOpens(erdFile.content)) = Len(snapshotFile.data.entities)
       /\ Len(ErdFieldLines(erdFile.content)) = Len(AllFields(snapshotFile.data.entities))

\* C10 amended: the entity blocks counted in the markup are as many as the
\* entities of the snapshot that have at least one field, and the field
\* lines as many as the fields of the snapshot.
C10_CountsRoundTripWithFields ==
    Rendered
    => /\ Len(ErdBlockOpens(erdFile.content))
            = Len(WithFields(snapshotFile.data.entities))
       /\ Len(ErdFieldLines(erdFile.content)) = Len(AllFields(snapshotFile.data.entities))

\* A rendered snapshot with an entity without fields, an entity with two
\* fields and a relationship.
C10_Witness ==
    /\ Rendered
    /\ \E i \in 1..Len(snapshotFile.data.entities) :
          snapshotFile.data.entities[i].fields = <<>>
    /\ \E i \in 1..Len(snapshotFile.data.entities) :
          Len(snapshotFile.data.entities[i].fields) = 2
    /\ snapshotFile.data.relationships # <<>>


\* The snapshot the last render-diagram run read.
Snapshot == snapshotFile.data

IsRelLine(l) == Len(l) = 7 /\ l[1] = Indent4

ErdRelLines(markup) == SelectSeq(markup, IsRelLine)

\* How many entity blocks of the markup open with the name.
BlocksNamed(markup, name) ==
    Len(SelectSeq(ErdBlockOpens(markup), LAMBDA l : l[2] = name))

\* How many entities of the sequence have the name.
EntitiesNamed(entities, name) ==
    Len(SelectSeq(entities, LAMBDA e : e.name = name))

KnownNames == {"User", "Order", "Item", "Audit", "Ghost", "model"}

\* An entity of that name with at least one field is in the snapshot.
HasBlock(name) == EntitiesNamed(WithFields(Snapshot.entities), name) > 0

\* C11: the markup holds exactly one block for each Entity with at least
\* one Field and none for an Entity without Fields, and a Relationship
\* whose endpoint is an Entity without Fields, or no Entity of the snapshot,
\* still has its line.
C11_BlocksAndEndpoints ==
    Rendered
    => /\ \A n \in KnownNames :
             BlocksNamed(erdFile.content, n)
                = EntitiesNamed(WithFields(Snapshot.entities), n)
       /\ \A i \in 1..Len(Snapshot.relationships) :
             (~HasBlock(Snapshot.relationships[i].to)
                 \/ ~HasBlock(Snapshot.relationships[i].from))
             => \E k \in 1..Len(erdFile.content) :
                   /\ IsRelLine(erdFile.content[k])
                   /\ erdFile.content[k][2] = Snapshot.relationships[i].from
                   /\ erdFile.content[k][6] = Snapshot.relationships[i].to

\* A rendered snapshot with a relationship to an entity without fields.
C11_Witness ==
    /\ Rendered
    /\ Len(WithFields(Snapshot.entities)) = 1
    /\ \E i \in 1..Len(Snapshot.entities) :
          /\ Snapshot.entities[i].fields = <<>>
          /\ \E j \in 1..Len(Snapshot.relationships) :
                Snapshot.relationships[j].to = Snapshot.entities[i].name


Markers == <<"PK", "FK", "UK", "NOT NULL">>

\* The condition under which a marker belongs to a Field's annotation.
MarkerHolds(f, m) ==
    CASE m = "PK"       -> f.primary_key
      [] m = "FK"       -> f.foreign_key # NoneValue
      [] m = "UK"       -> f.unique
      [] m = "NOT NULL" -> ~f.nullable

Annotation(f) ==
    LET ms == SelectSeq(Markers, LAMBDA m : MarkerHolds(f, m))
    IN  IF ms = <<>> THEN "" ELSE " \"" \o Join(ms, ", ") \o "\""

\* C12: the diagram line of every Field is its type, its name and a quoted
\* annotation that lists, in the order PK, FK, UK, NOT NULL, exactly the
\* markers whose condition holds; there is no annotation when none holds.
C12_FieldLine ==
    Rendered
    => LET ls == ErdFieldLines(erdFile.content)
           fs == AllFields(Snapshot.entities)
       IN  /\ Len(ls) = Len(fs)
           /\ \A i \in 1..Len(fs) :
                 FieldLineText(ls[i])
                    = fs[i].type \o " " \o fs[i].name \o Annotation(fs[i])

\* A rendered snapshot with a field for which all four conditions hold and
\* a field for which none does.
C12_Witness ==
    /\ Rendered
    /\ \E i \in 1..Len(AllFields(Snapshot.entities)) :
          \A k \in 1..4 : MarkerHolds(AllFields(Snapshot.entities)[i], Markers[k])
    /\ \E i \in 1..Len(AllFields(Snapshot.entities)) :
          \A k \in 1..4 : ~MarkerHolds(AllFields(Snapshot.entities)[i], Markers[k])


\* The token of a cardinality: one-to-one, many-to-many, else one-to-many.
CardinalityToken(cardinality) ==
    IF cardinality = "1:1" THEN "||--||"
    ELSE IF cardinality = "N:M" THEN "}o--o{"
    ELSE "||--o{"

\* C13: every Relationship of the snapshot has one line: from, the token of
\* its cardinality, to; a cardinality that is none of the three known ones
\* gets the one-to-many token.
C13_CardinalityToken ==
    Rendered
    => LET ls == ErdRelLines(erdFile.content)
           rs == Snapshot.relationships
       IN  /\ Len(ls) = Len(rs)
           /\ \A i \in 1..Len(rs) :
                 SubSeq(ls[i], 2, 6)
                    = <<rs[i].from, " ", CardinalityToken(rs[i].type), " ", rs[i].to>>

\* A rendered snapshot with a relationship of an unknown cardinality.
C13_Witness ==
    /\ Rendered
    /\ \E i \in 1..Len(Snapshot.relationships) :
          Snapshot.relationships[i].type \notin {"1:1", "1:N", "N:M"}


\* C14: in the markup every line of an entity block comes before every
\* relationship line, the blocks are in the snapshot's entity order and the
\* relationship lines in the snapshot's relationship order.
C14_LineOrder ==
    Rendered
    => LET m  == erdFile.content
           bs == ErdBlockOpens(m)
           es == WithFields(Snapshot.entities)
           ls == ErdRelLines(m)
           rs == Snapshot.relationships
       IN  /\ m[1] = <<"erDiagram">>
           /\ \A i, j \in 2..Len(m) :
                 (IsRelLine(m[i]) /\ ~IsRelLine(m[j])) => j < i
           /\ [i \in 1..Len(bs) |-> bs[i][2]] = [i \in 1..Len(es) |-> es[i].name]
           /\ [i \in 1..Len(ls) |-> <<ls[i][2], ls[i][6]>>]
                 = [i \in 1..Len(rs) |-> <<rs[i].from, rs[i].to>>]

\* A rendered snapshot with two blocks of different names and two
\* relationships from different entities.
C14_Witness ==
    /\ Rendered
    /\ Len(WithFields(Snapshot.entities)) = 2
    /\ WithFields(Snapshot.entities)[1].name # WithFields(Snapshot.entities)[2].name
    /\ Len(Snapshot.relationships) = 2
    /\ Snapshot.relationships[1].from # Snapshot.relationships[2].from


NamesOf(entities) == {entities[i].name : i \in 1..Len(entities)}

\* The whole line the diagram gives a relationship, label included.
RelationshipLine(r) ==
    <<Indent4, r.from, " ", CardinalityToken(r.type), " ", r.to,
      IF r.field = "" THEN "" ELSE " : \"" \o r.field \o "\"">>

\* C16: a Relationship whose target names no Entity of the model is kept
\* by extract_schema as its Field gives it, and generate_mermaid_erd still
\* writes its line.
C16_DanglingRetained ==
    /\ Returned
       => \A j \in 1..Len(report.entities) :
             \A k \in 1..Len(report.entities[j].fields) :
                LET f == report.entities[j].fields[k]
                IN  (f.foreign_key # NoneValue
                        /\ f.foreign_key \notin NamesOf(report.entities))
                    => [from |-> report.entities[j].name, to |-> f.foreign_key,
                        type |-> "1:N", field |-> f.name]
                          \in Range(report.relationships)
    /\ Rendered
       => \A i \in 1..Len(Snapshot.relationships) :
             Snapshot.relationships[i].to \notin NamesOf(Snapshot.entities)
             => RelationshipLine(Snapshot.relationships[i]) \in Range(erdFile.content)

\* An extracted and rendered model whose only relationship has a target
\* that is no entity of the model.
C16_Witness ==
    /\ extractExit = "0"
    /\ Rendered
    /\ Snapshot = report
    /\ Len(report.relationships) = 1
    /\ report.relationships[1].to \notin NamesOf(report.entities)
    /\ RelationshipLine(report.relationships[1]) \in Range(erdFile.content)


DialectKeys ==
    {"django_models", "sqlalchemy_models", "prisma_schema", "rails_migrations",
     "knex_migrations", "sql_schema"}

\* The file extensions among which a dialect's files are recognised.
DialectExts(k) ==
    CASE k = "django_models"     -> {"py"}
      [] k = "sqlalchemy_models" -> {}
      [] k = "prisma_schema"     -> {"prisma"}
      [] k = "rails_migrations"  -> {"rb"}
      [] k = "knex_migrations"   -> {"js", "ts"}
      [] k = "sql_schema"        -> {"sql"}

\* C17: every key of the mapping find_schema_files returned maps to at
\* least one path, and a dialect of which the tree holds no file is not a
\* key of it.
C17_NoEmptyDialect ==
    /\ DOMAIN schema_files \subseteq DialectKeys
    /\ \A k \in DOMAIN schema_files : schema_files[k] # <<>>
    /\ extractExit # "not_run"
       => \A k \in DialectKeys :
             (\A i \in 1..Len(tree) : tree[i].ext \notin DialectExts(k))
             => k \notin DOMAIN schema_files

\* A mapping returned for a tree with a models.py that is not recognised
\* and a file of another dialect that is.
C17_Witness ==
    /\ extractExit # "not_run"
    /\ \E i \in 1..Len(tree) : IsDjangoPath(tree[i])
    /\ "django_models" \notin DOMAIN schema_files
    /\ Cardinality(DOMAIN schema_files) = 1


\* C18: with zero entities the extract command still writes a report,
\* labelled as holding no entity, and the render-diagram command given a
\* snapshot without entities and relationships writes the diagram header
\* alone and ends with 0.
C18_EmptyModelRenders ==
    /\ (Returned /\ report.entities = <<>>)
       => /\ reportFile.exists
          /\ "**Total Entities**: 0" \in Range(reportFile.content)
    /\ (FileNamed /\ snapshotFile.state = "valid"
           /\ Snapshot.entities = <<>> /\ Snapshot.relationships = <<>>)
       => /\ renderExit = "0"
          /\ erdFile.exists
          /\ erdFile.content = << <<"erDiagram">> >>


\* Owner, target and name of the Fields of an Entity that carry a
\* foreign-key target, in field order.
OwnerTargetVia(entity) ==
    LET fks == SelectSeq(entity.fields, LAMBDA f : f.foreign_key # NoneValue)
    IN  [k \in 1..Len(fks) |-> <<entity.name, fks[k].foreign_key, fks[k].name>>]

\* C20: the Relationships of a returned model are, Field by Field, those of
\* the Fields with a foreign-key target: from the Entity that owns the
\* Field, to the Field's target, via the Field's name.
C20_RelationshipEndpoints ==
    Returned
    => [i \in 1..Len(report.relationships) |->
           <<report.relationships[i].from, report.relationships[i].to,
             report.relationships[i].field>>]
          = Flatten([j \in 1..Len(report.entities) |->
                        OwnerTargetVia(report.entities[j])])

\* A returned model with the relationship from Order to User via user and
\* a second relationship.
C20_Witness ==
    /\ Returned
    /\ Len(report.relationships) = 2
    /\ \E i \in 1..2 :
          /\ report.relationships[i].from = "Order"
          /\ report.relationships[i].to = "User"
          /\ report.relationships[i].field = "user"


\* The task numbers a message closes: the digits after 'closes #task-' or
\* 'closes task-', in any letter case.
ClosedTasks(message) ==
    LET toks == LowerAll(message)
        n    == Len(toks)
    IN  {toks[i + 5] : i \in {i \in 1..n : /\ i + 5 <= n
                                          /\ SubSeq(toks, i, i + 4)
                                               = <<"closes", Blank, "#", "task", "-">>}}
        \cup {toks[i + 4] : i \in {i \in 1..n : /\ i + 4 <= n
                                               /\ SubSeq(toks, i, i + 3)
                                                    = <<"closes", Blank, "task", "-">>}}

\* The task files of the project with that number.
TaskFilesNumbered(num) == SelectSeq(project.tasks, LAMBDA t : t.num = num)

\* C19: after a run of the status update that ended normally, every
\* analysed commit whose message closes a task is among the triggers, and
\* the file of the task it closes holds a session entry of that commit.
C19_ClosesTriggers ==
    update.exit = "0"
    => \A i \in 1..Len(update.commits) :
          ClosedTasks(update.commits[i].message) # {}
          => /\ update.commits[i].hash \in update.triggers
             /\ \A num \in ClosedTasks(update.commits[i].message) :
                   \A k \in 1..Len(TaskFilesNumbered(num)) :
                      update.commits[i].hash
                         \in Range(Sessions(TaskFilesNumbered(num)[k]))


\* The names of the Fields of an Entity, in the Entity's order.
FieldNameSeq(e) == [k \in 1..Len(e.fields) |-> e.fields[k].name]

\* The declarations of a block that its dialect's extractor recognises as
\* field declarations, in the order in which the block states them.
RecognizedDecls(f, b) ==
    IF IsDjangoPath(f)
    THEN SelectSeq(b.decls, LAMBDA d : d.ctor \in RecognizedCtors)
    ELSE b.decls

\* The source is one readable file of well-formed blocks, and the
\* extraction returned one Entity for each of them.
ExtractedBlockwise ==
    /\ Returned
    /\ OneSource
    /\ AllWellFormed(Source)

\* C21: the Fields of every extracted Entity are in the order in which the
\* source block declares them, for both dialect extractors and for every
\* mix of declaration shapes.
C21_DeclarationOrder ==
    ExtractedBlockwise
    => /\ Len(report.entities) = Len(Source.blocks)
       /\ \A i \in 1..Len(Source.blocks) :
             FieldNameSeq(report.entities[i])
                = [k \in 1..Len(RecognizedDecls(Source, Source.blocks[i])) |->
                      RecognizedDecls(Source, Source.blocks[i])[k].name]


\* C22: in every extracted Entity every Field name is non-empty and no two
\* Fields have the same name, also when the block declares a name twice.
C22_UniqueFieldNames ==
    Returned
    => \A i \in 1..Len(report.entities) :
          /\ \A k \in 1..Len(report.entities[i].fields) :
                report.entities[i].fields[k].name # ""
          /\ \A k, l \in 1..Len(report.entities[i].fields) :
                k # l => report.entities[i].fields[k].name
                            # report.entities[i].fields[l].name


\* C23: a model-class block whose nested Meta class assigns db_table, on
\* the line of the Meta header or on the line after it, gives an Entity
\* whose table_name is the assigned name.
C23_OverrideVerbatim ==
    (ExtractedBlockwise /\ IsDjangoPath(Source))
    => /\ Len(report.entities) = Len(Source.blocks)
       /\ \A i \in 1..Len(Source.blocks) :
             Source.blocks[i].meta # "none"
             => report.entities[i].table_name = OverrideName


\* The flags a declaration's attribute clause states: primary key,
\* not-nullable, unique and the foreign-key target (NoneValue without one).
DeclaredFlags(f, d) ==
    IF IsDjangoPath(f)
    THEN [primary_key |-> "primary_key=True" \in Range(d.args),
          not_null    |-> "null=False" \in Range(d.args),
          unique      |-> "unique=True" \in Range(d.args),
          foreign_key |-> IF d.ctor = "ForeignKey" /\ d.args # <<>>
                          THEN d.args[1] ELSE NoneValue]
    ELSE [primary_key |-> "@id" \in Range(d.attrs),
          not_null    |-> ~d.opt,
          unique      |-> "@unique" \in Range(d.attrs),
          foreign_key |-> IF "@relation" \in Range(d.attrs)
                          THEN d.type ELSE NoneValue]

FieldFlags(fld) ==
    [primary_key |-> fld.primary_key, not_null |-> ~fld.nullable,
     unique |-> fld.unique, foreign_key |-> fld.foreign_key]

\* C24: every Field carries each of the four flags exactly when the
\* declaration it comes from states the flag's marker, whatever the other
\* three markers are.
C24_FlagsFollowMarkers ==
    ExtractedBlockwise
    => /\ Len(report.entities) = Len(Source.blocks)
       /\ \A i \in 1..Len(Source.blocks) :
             \A k \in 1..Len(report.entities[i].fields) :
                \E j \in 1..Len(Source.blocks[i].decls) :
                   /\ Source.blocks[i].decls[j].name = report.entities[i].fields[k].name
                   /\ FieldFlags(report.entities[i].fields[k])
                        = DeclaredFlags(Source, Source.blocks[i].decls[j])


Cardinalities == {"1:1", "1:N", "N:M"}

FieldAttributes ==
    {"name", "type", "nullable", "primary_key", "foreign_key", "unique", "default"}

\* C25: no Field of a returned model carries a cardinality tag, and every
\* Relationship of the model has the cardinality one-to-many ('1:N'), one
\* of the three cardinalities.
C25_DefaultCardinality ==
    Returned
    => /\ \A i \in 1..Len(AllFields(report.entities)) :
             DOMAIN AllFields(report.entities)[i] = FieldAttributes
       /\ \A i \in 1..Len(report.relationships) :
             /\ report.relationships[i].type = "1:N"
             /\ report.relationships[i].type \in Cardinalities

\* A returned model of two entities with one relationship.
C25_Witness ==
    /\ Returned
    /\ Len(report.entities) = 2
    /\ Len(report.relationships) = 1


\* The files of a tree that find_schema_files takes for a dialect, in
\* traversal order.
DjangoLocated(t) == SelectSeq(t, LAMBDA f : IsDjangoPath(f) /\ DjangoKeep(f))

PrismaLocated(t) == SelectSeq(t, IsPrismaPath)

\* The names the blocks of the files declare, file by file, block by block.
BlockNamesOf(files) ==
    Flatten([i \in 1..Len(files) |->
                [j \in 1..Len(files[i].blocks) |-> files[i].blocks[j].name]])

\* The pairs of owner and Field of the Fields with a foreign-key target,
\* Entity by Entity, Field by Field.
OwnerAndField(entities) ==
    Flatten([i \in 1..Len(entities) |->
                [k \in 1..Len(OwnerTargetVia(entities[i])) |->
                    <<i, OwnerTargetVia(entities[i])[k][3]>>]])

\* Every file handed to the extractors can be read and declares
\* well-formed blocks only.
AllSourcesWellFormed ==
    \A i \in 1..Len(ParsedFiles(tree)) :
        ParsedFiles(tree)[i].readable /\ AllWellFormed(ParsedFiles(tree)[i])

\* C26: the Entities of a returned model are those of the model-class files
\* in discovery order, then those of the block-schema files in discovery
\* order, each file's in declaration order, and the Relationships follow
\* the position of their owning Entity, then of their Field.
C26_InsertionOrder ==
    (Returned /\ AllSourcesWellFormed)
    => /\ [i \in 1..Len(report.entities) |-> report.entities[i].name]
            = BlockNamesOf(DjangoLocated(tree)) \o BlockNamesOf(PrismaLocated(tree))
       /\ [i \in 1..Len(report.relationships) |->
              <<report.relationships[i].from, report.relationships[i].field>>]
            = [i \in 1..Len(OwnerAndField(report.entities)) |->
                  <<report.entities[OwnerAndField(report.entities)[i][1]].name,
                    OwnerAndField(report.entities)[i][2]>>]

\* A returned model of a tree in which a block-schema file is discovered
\* before a model-class file, with an Entity of each.
C26_Witness ==
    /\ Returned
    /\ Len(tree) = 2
    /\ IsPrismaPath(tree[1])
    /\ IsDjangoPath(tree[2])
    /\ Len(report.entities) = 2
    /\ report.entities[1].name = tree[2].blocks[1].name
    /\ report.entities[2].name = tree[1].blocks[1].name
    /\ report.entities[1].name # report.entities[2].name


\* C27: the Entities of a returned model are the Entities the extractors
\* returned, with name, table_name, fields and an empty relationships list;
\* the derived Relationships are in the model's list only.
C27_EntitiesNotMutated ==
    Returned
    => /\ report.entities
            = Flatten([i \in 1..Len(ParsedFiles(tree)) |-> ParseFile(ParsedFiles(tree)[i])])
       /\ \A i \in 1..Len(report.entities) :
             /\ report.entities[i].relationships = <<>>
             /\ report.entities[i].indexes = <<>>
       /\ \A i \in 1..Len(ParsedFiles(tree)) :
             \A j \in 1..Len(ParseFile(ParsedFiles(tree)[i])) :
                ParseFile(ParsedFiles(tree)[i])[j].relationships = <<>>

\* A saved model with a Relationship whose owning Entity has an empty
\* relationships list.
C27_Witness ==
    /\ extractExit = "0"
    /\ report.relationships # <<>>
    /\ \E i \in 1..Len(report.entities) :
          /\ report.entities[i].name = report.relationships[1].from
          /\ report.entities[i].relationships = <<>>
          /\ \E k \in 1..Len(report.entities[i].fields) :
                report.entities[i].fields[k].foreign_key # NoneValue


\* C28: the orm_framework of a returned model is 'Prisma' when a
\* block-schema file was located, 'Django ORM' when only model-class files
\* were, and None when neither was, whatever Entities were extracted.
C28_OrmFromDetection ==
    Returned
    => report.orm_framework
         = IF PrismaLocated(tree) # <<>> THEN "Prisma"
           ELSE IF DjangoLocated(tree) # <<>> THEN "Django ORM"
           ELSE NoneValue

\* A returned model with an Entity of a model-class file and 'Prisma' as
\* its orm_framework.
C28_Witness ==
    /\ Returned
    /\ DjangoLocated(tree) # <<>>
    /\ PrismaLocated(tree) # <<>>
    /\ report.entities # <<>>
    /\ report.entities[1] \in Range(ParseFile(DjangoLocated(tree)[1]))
    /\ report.orm_framework = "Prisma"


\* C29: every call of update_task_status on an existing task file makes a
\* Status of pending or in_progress completed, leaves a completed Status
\* completed, and adds exactly one session entry to the file, so that the
\* entries of the file count the calls made on it.
C29_StatusMonotone ==
    [][UpdateTaskStatus
       => \A k \in 1..Len(project.tasks) :
             project'.tasks[k] # project.tasks[k]
             => /\ project.tasks[k].status \in {"pending", "in_progress", "completed"}
                   => project'.tasks[k].status = "completed"
                /\ Len(Sessions(project'.tasks[k]))
                      = Len(Sessions(project.tasks[k])) + 1]_vars


\* A commit of the analysed ones triggers an update of a task file that
\* exists.
Applies(commits, tasks) ==
    \E i \in 1..Len(commits) :
        /\ should_trigger_update(commits[i])
        /\ \E j \in 1..Len(extract_task_references(commits[i])) :
              find_task_file(tasks, extract_task_references(commits[i])[j]) # 0

\* C30: a run of the status update adds a history snapshot or rewrites
\* .last_update only if it updated a task file; a run that ends normally
\* without a commit that triggers an update of an existing task file leaves
\* history, .last_update and every other file as they were, and the run
\* after it analyses the same commits.
C30_SavedOnlyWithUpdates ==
    [][UpdateMain
       => /\ (project'.history # project.history
                 \/ project'.last_update # project.last_update)
             => /\ \E k \in 1..Len(project.tasks) :
                      project'.tasks[k] # project.tasks[k]
                /\ Applies(update'.commits, project.tasks)
          /\ (update'.exit = "0" /\ ~Applies(update'.commits, project.tasks))
             => project' = project
          /\ (update.exit = "0" /\ ~Applies(update.commits, project.tasks))
             => /\ update'.exit = "0"
                /\ update'.commits = update.commits]_vars

\* Two runs have ended normally, each with a commit that triggers an
\* update of a task file that does not exist, and nothing was saved.
C30_Witness ==
    /\ update.runs = 2
    /\ update.exit = "0"
    /\ update.triggers # {}
    /\ \E i \in 1..Len(update.commits) :
          /\ update.commits[i].hash \in update.triggers
          /\ extract_task_references(update.commits[i]) # <<>>
    /\ ~Applies(update.commits, project.tasks)
    /\ project.history = <<>>
    /\ project.last_update = NoTime


====
